---- MODULE Spec2Model ----
(***************************************************************************)
(* The account ledger of apps.finances: accounts with a cached balance,    *)
(* transactions (with paired transfers), adjustments (with reversals),     *)
(* balance snapshots and the audit log, with the post_save / post_delete   *)
(* handlers that recalculate the cached balance.                           *)
(*                                                                         *)
(* Money is a whole number of cents (DecimalField, decimal_places = 2).    *)
(* A Python Decimal in the middle of a computation is a whole number of    *)
(* tenths of a cent, so that quantize(Decimal("0.01")) is a real rounding. *)
(* A nullable value is <<>> (NULL / None) or <<v>>.                        *)
(***************************************************************************)
EXTENDS Integers, Sequences, FiniteSets, Bags, TLC

\* Bounds of the model.
MaxTx == 3
MaxAdj == 3
MaxCalls == 3

VARIABLES
    db,       \* the committed database: accounts, txs, adjs, snapshots, audit
              \* (with the state of the connection while a call runs)
    lastOp,   \* the last call made and what it returned or raised
    lastMut,  \* per account: the last ledger mutation that touched it
    procs,    \* per worker: the call it is running, its position and its
              \* uncommitted writes
    calls     \* the number of completed calls that wrote to the ledger

vars == <<db, lastOp, lastMut, procs, calls>>

None == <<>>
Some(v) == <<v>>

\* The two accounts of the test fixtures (Checking, Savings).
Accounts == {1, 2}

\* ---------------------------------------------------------------- inputs
TxInputs ==
    { [amount |-> -2000, type |-> "expense"],
      [amount |-> 0, type |-> "expense"],
      [amount |-> 0, type |-> "income"] }

TxUpdateAmounts == {1500}

TransferAmounts == {3000, 1, 0}

AdjInputs == { [old |-> 10000, new |-> 10500] }

AdjUpdateInputs == { [old |-> 10000, new |-> 12000] }

\* The currency of a payload: absent, the accounts' currency, another one.
Currencies == {None, Some("USD"), Some("EUR")}

\* Transaction.currency: default="USD".
DefaultCurrency == "USD"

\* ---------------------------------------------------------------- money
ToDecimal(cents) == cents * 10

Abs(n) == IF n < 0 THEN -n ELSE n

\* Decimal.quantize(Decimal("0.01")) under the default context (ROUND_HALF_EVEN).
Quantize(m) ==
    LET q == Abs(m) \div 10
        r == Abs(m) % 10
        up == r > 5 \/ (r = 5 /\ q % 2 = 1)
        mag == IF up THEN q + 1 ELSE q
    IN  IF m < 0 THEN -mag ELSE mag

RECURSIVE SumAmount(_)
SumAmount(rows) ==
    IF rows = {} THEN 0
    ELSE LET r == CHOOSE r \in rows : TRUE
         IN  r.amount + SumAmount(rows \ {r})

RECURSIVE SumDelta(_)
SumDelta(rows) ==
    IF rows = {} THEN 0
    ELSE LET r == CHOOSE r \in rows : TRUE
         IN  (r.new_amount - r.old_amount) + SumDelta(rows \ {r})

\* Sum("amount") / Sum("delta"): NULL over no rows.
AggregateAmount(rows) == IF rows = {} THEN None ELSE Some(SumAmount(rows))
AggregateDelta(rows) == IF rows = {} THEN None ELSE Some(SumDelta(rows))

\* `x or Decimal("0.00")`: None and a zero Decimal are both falsy.
OrZero(o) == IF o = None THEN 0 ELSE IF o[1] = 0 THEN 0 ELSE o[1]

\* ---------------------------------------------------------------- Account
\* A get_balance that forgets the adjustments; BalanceIdentity rejects it.
GetBalanceNoAdjustments(d, a) ==
    LET tx_sum == OrZero(AggregateAmount({t \in d.txs : t.account = a}))
    IN  Quantize(ToDecimal(d.accounts[a].initial_balance) + ToDecimal(tx_sum))

\* Account.get_balance.
GetBalance(d, a) ==
    LET tx_sum == OrZero(AggregateAmount({t \in d.txs : t.account = a}))
        adj_sum == OrZero(AggregateDelta({j \in d.adjs : j.account = a}))
        total == ToDecimal(d.accounts[a].initial_balance) + ToDecimal(tx_sum)
                 + ToDecimal(adj_sum)
    IN  Quantize(total)

\* A block that keeps its writes when an exception leaves it; TransferAtomicity
\* rejects it.
RollbackNothing(before, partial) == partial

\* `with transaction.atomic()`: an exception leaving the block undoes every
\* write made inside it.
Rollback(before, partial) == before

\* The connection between calls: autocommit, no exception on its way.
IdleConn == [in_atomic_block |-> FALSE, needs_rollback |-> FALSE]

\* ATOMIC_REQUESTS: the view runs inside one atomic() block. audit_raises says
\* whether AuditLog.objects.create raises during this request.
BeginRequest(d, audit_raises) ==
    [d EXCEPT !.conn = [in_atomic_block |-> TRUE, needs_rollback |-> FALSE],
              !.audit_raises = audit_raises,
              !.exc = ""]

\* Leaving the request's atomic() block: COMMIT, or ROLLBACK when an exception
\* leaves the view or the connection is marked needs_rollback.
EndRequest(before, after) ==
    IF after.exc /= "" \/ after.conn.needs_rollback
    THEN Rollback(before, after)
    ELSE [after EXCEPT !.conn = IdleConn, !.audit_raises = FALSE]

\* A nested atomic() block left without an exception: its savepoint is released,
\* or rolled back to when the connection was marked needs_rollback inside it
\* (the mark is cleared).
EndAtomic(before, after) ==
    IF after.conn.needs_rollback THEN Rollback(before, after) ELSE after

\* Today's snapshot row of account a, if any (unique_together account, date).
HasSnapshot(d, a) == \E s \in d.snapshots : s.account = a

\* A recalculate_balance that computes and returns the balance and leaves the
\* account row alone.
RecalculateBalanceNoWrite(d, a, save_snapshot) ==
    [ok |-> ~d.conn.needs_rollback, db |-> d,
     ret |-> IF d.conn.needs_rollback THEN 0 ELSE GetBalance(d, a)]

\* recalculate_balance: [ok, db, ret].
RecalculateBalance(d, a, save_snapshot) ==
    LET new_balance == GetBalance(d, a)
        d1 == [d EXCEPT !.accounts[a].balance = new_balance]
    IN  IF d.conn.needs_rollback
        THEN \* the first query raises TransactionManagementError
             [ok |-> FALSE, db |-> d, ret |-> 0]
        ELSE IF ~save_snapshot
        THEN [ok |-> TRUE, db |-> d1, ret |-> new_balance]
        ELSE IF HasSnapshot(d, a)
        THEN \* BalanceSnapshot.objects.create hits unique_together: IntegrityError
             [ok |-> FALSE, db |-> Rollback(d, d1), ret |-> 0]
        ELSE [ok |-> TRUE,
              db |-> [d1 EXCEPT !.snapshots =
                         @ \cup {[account |-> a, balance |-> new_balance]}],
              ret |-> new_balance]

\* ---------------------------------------------------------------- signals
\* str(Decimal): sign, units, cents.
DecimalStr(cents) ==
    <<IF cents < 0 THEN "-" ELSE "", Abs(cents) \div 100, Abs(cents) % 100>>

\* _serialize_instance: every field of the instance under its name, a Decimal
\* as its string, anything else as it is.
SerializeInstance(instance) ==
    [f \in DOMAIN instance |->
        IF f \in {"amount", "old_amount", "new_amount"}
        THEN DecimalStr(instance[f])
        ELSE IF f = "date" THEN <<"isoformat", instance[f]>>
        ELSE instance[f]]

\* The {} the handlers pass as before on an update.
EmptyDict == <<>>

\* The AuditLog row a handler builds.
AuditRow(otype, instance, action) ==
    [object_type |-> otype, object_id |-> instance.id, action |-> action,
     before |-> IF action = "created" THEN None
                ELSE IF action = "updated" THEN Some(EmptyDict)
                ELSE Some(SerializeInstance(instance)),
     after |-> IF action = "deleted" THEN None
               ELSE Some(SerializeInstance(instance))]

\* AuditLog.objects.create inside the handler's try / except Exception: pass.
\* An exception raised inside save() while an atomic() block is open marks the
\* connection needs_rollback before the handler swallows it; on a connection
\* so marked the INSERT raises TransactionManagementError, swallowed as well.
AuditLogCreate(d, row) ==
    IF d.audit_raises
    THEN [d EXCEPT !.conn.needs_rollback = @ \/ d.conn.in_atomic_block]
    ELSE IF d.conn.needs_rollback THEN d
    ELSE [d EXCEPT !.audit = @ (+) SetToBag({row})]

\* One receiver: recalculate the instance's account (best effort), then
\* write the audit row (best effort).
Receiver(d, otype, instance, action) ==
    AuditLogCreate(RecalculateBalance(d, instance.account, FALSE).db,
                   AuditRow(otype, instance, action))

\* Every save or delete runs two receivers: the @receiver functions of
\* models.py and the ones register_signals() connects from AppConfig.ready().
SendSignal(d, otype, instance, action) ==
    Receiver(Receiver(d, otype, instance, action), otype, instance, action)

\* A write statement w of the ORM on the connection of d: skipped when an
\* exception is already on its way out, TransactionManagementError when the
\* connection is marked needs_rollback.
Raised(d) == d.exc /= ""

Broken(d) == [d EXCEPT !.exc = "TransactionManagementError"]

\* ---------------------------------------------------------------- Transaction
\* The calendar day of the run (date defaults to timezone.now).
Today == 1

TxRow(id, account, amount, currency, type, related) ==
    [id |-> id, account |-> account, amount |-> amount, currency |-> currency,
     type |-> type, related_transaction |-> related,
     date |-> Today, is_duplicate |-> FALSE]

TxById(d, id) == CHOOSE t \in d.txs : t.id = id

\* Transaction.objects.create: INSERT, then post_save(created=True).
CreateTx(d, account, amount, currency, type) ==
    LET row == TxRow(d.nextTx, account, amount, currency, type, 0)
        d1 == [d EXCEPT !.txs = @ \cup {row}, !.nextTx = row.id + 1]
    IN  IF Raised(d) THEN d
        ELSE IF d.conn.needs_rollback THEN Broken(d)
        ELSE SendSignal(d1, "Transaction", row, "created")

\* instance.save(): UPDATE of the row, then post_save(created=False) on the
\* account the instance now points to.
SaveTx(d, row) ==
    LET d1 == [d EXCEPT !.txs = {t \in @ : t.id /= row.id} \cup {row}]
    IN  IF Raised(d) THEN d
        ELSE IF d.conn.needs_rollback THEN Broken(d)
        ELSE SendSignal(d1, "Transaction", row, "updated")

\* instance.delete(): related_transaction is on_delete=SET_NULL, so rows that
\* point to the deleted one are nulled by a plain UPDATE (no signal); then the
\* row is deleted and post_delete runs.
DeleteTx(d, row) ==
    LET nulled == {IF t.related_transaction = row.id
                   THEN [t EXCEPT !.related_transaction = 0] ELSE t
                   : t \in {u \in d.txs : u.id /= row.id}}
        d1 == [d EXCEPT !.txs = nulled]
    IN  IF Raised(d) THEN d
        ELSE IF d.conn.needs_rollback THEN Broken(d)
        ELSE SendSignal(d1, "Transaction", row, "deleted")

\* TransactionSerializer.validate. inst is None on create, <<row>> on update;
\* every attribute of attrs is None when the payload does not carry it.
\* validate() without the two amount checks.
ValidateTransactionAnyAmount(d, inst, attrs) ==
    LET account == IF attrs.account /= None THEN attrs.account
                   ELSE IF inst /= None THEN Some(inst[1].account) ELSE None
        currency == IF attrs.currency /= None /\ attrs.currency /= Some("")
                    THEN attrs.currency
                    ELSE IF inst /= None THEN Some(inst[1].currency) ELSE None
        tx_type == IF attrs.type /= None THEN attrs.type[1]
                   ELSE IF inst /= None THEN inst[1].type ELSE "none"
        dest_account == attrs.transfer_to_account
    IN  IF account /= None /\ currency /= None
           /\ currency[1] /= d.accounts[account[1]].currency
        THEN "currency_mismatch"
        ELSE IF tx_type = "transfer" /\ dest_account = None
        THEN "transfer_to_account_required"
        ELSE IF tx_type = "transfer" /\ account /= None
                /\ dest_account[1] = account[1]
        THEN "same_account"
        ELSE "ok"

ValidateTransaction(d, inst, attrs) ==
    LET account == IF attrs.account /= None THEN attrs.account
                   ELSE IF inst /= None THEN Some(inst[1].account) ELSE None
        currency == IF attrs.currency /= None /\ attrs.currency /= Some("")
                    THEN attrs.currency
                    ELSE IF inst /= None THEN Some(inst[1].currency) ELSE None
        tx_type == IF attrs.type /= None THEN attrs.type[1]
                   ELSE IF inst /= None THEN inst[1].type ELSE "none"
        amount == IF attrs.amount /= None /\ attrs.amount /= Some(0)
                  THEN attrs.amount
                  ELSE IF inst /= None THEN Some(inst[1].amount) ELSE None
        dest_account == attrs.transfer_to_account
    IN  IF amount = None THEN "amount_required"
        ELSE IF amount = Some(0) THEN "amount_zero"
        ELSE IF account /= None /\ currency /= None
                /\ currency[1] /= d.accounts[account[1]].currency
        THEN "currency_mismatch"
        ELSE IF tx_type = "transfer" /\ dest_account = None
        THEN "transfer_to_account_required"
        ELSE IF tx_type = "transfer" /\ account /= None
                /\ dest_account[1] = account[1]
        THEN "same_account"
        ELSE "ok"

\* An outgoing amount that keeps its sign; TransferConservation rejects it.
TransferOutAmountSameSign(amount) == Quantize(ToDecimal(amount))

\* The amounts create_transfer writes.
TransferOutAmount(amount) == Quantize(ToDecimal(amount) * (-1))

TransferInAmount(amount) == Quantize(ToDecimal(amount))

\* out.related_transaction = inc; out.save(update_fields=[...]).
LinkTx(d, id, related) ==
    IF Raised(d) THEN d
    ELSE SaveTx(d, [TxById(d, id) EXCEPT !.related_transaction = related])

\* The first n of the four writes of create_transfer, in the order of the code:
\* INSERT of the outgoing row, INSERT of the incoming row, UPDATE of the
\* outgoing row's link, UPDATE of the incoming row's link.
InsertOut(n, d, from_account, amount, currency) ==
    IF n >= 1 THEN CreateTx(d, from_account, TransferOutAmount(amount), currency, "transfer")
    ELSE d

InsertInc(n, d, to_account, amount, currency) ==
    IF n >= 2 THEN CreateTx(d, to_account, TransferInAmount(amount), currency, "transfer")
    ELSE d

LinkOut(n, d, out_id, inc_id) == IF n >= 3 THEN LinkTx(d, out_id, inc_id) ELSE d

LinkInc(n, d, out_id, inc_id) == IF n >= 4 THEN LinkTx(d, inc_id, out_id) ELSE d

TransferWrites(n, d, from_account, to_account, amount, currency) ==
    LinkInc(n, LinkOut(n, InsertInc(n, InsertOut(n, d, from_account, amount, currency),
                                    to_account, amount, currency),
                       d.nextTx, d.nextTx + 1),
            d.nextTx, d.nextTx + 1)

\* Transaction.create_transfer, the write numbered fail_at (1..4) raising; 0 for
\* none. [ok, err, db, out].
\* A comparison that never finds two accounts equal.
SameAccountNever(from_account, to_account) == FALSE

\* from_account == to_account (Model.__eq__: same primary key).
SameAccount(from_account, to_account) == from_account = to_account

CreateTransferModel(d, from_account, to_account, amount, cur, fail_at) ==
    LET currency == IF cur = None THEN d.accounts[from_account].currency ELSE cur[1]
        w == TransferWrites(IF fail_at > 0 THEN fail_at - 1 ELSE 4,
                            d, from_account, to_account, amount, currency)
    IN  IF SameAccount(from_account, to_account)
        THEN [ok |-> FALSE, err |-> "ValueError", db |-> d, out |-> 0]
        ELSE IF Raised(w)
        THEN [ok |-> FALSE, err |-> w.exc, db |-> Rollback(d, w), out |-> 0]
        ELSE IF fail_at > 0
        THEN [ok |-> FALSE, err |-> "DatabaseError", db |-> Rollback(d, w), out |-> 0]
        ELSE [ok |-> TRUE, err |-> "", db |-> EndAtomic(d, w), out |-> d.nextTx]

\* ---------------------------------------------------------------- Adjustment
AdjRow(id, account, old, new, reason, is_reversal, reversal_of) ==
    [id |-> id, account |-> account, old_amount |-> old, new_amount |-> new,
     reason |-> reason, is_reversal |-> is_reversal, reversal_of |-> reversal_of]

AdjById(d, id) == CHOOSE j \in d.adjs : j.id = id

\* A reversal_of column without its UNIQUE index; AtMostOneReversal rejects it.
ReversalOfNotUnique(d, orig_id) == TRUE

\* reversal_of is a OneToOneField: the column is UNIQUE (NULLs excepted).
ReversalOfIsFree(d, orig_id) == \A j \in d.adjs : j.reversal_of /= orig_id

\* Adjustment.objects.create: INSERT, then post_save(created=True).
CreateAdj(d, account, old, new, reason, is_reversal, reversal_of) ==
    LET row == AdjRow(d.nextAdj, account, old, new, reason, is_reversal, reversal_of)
        d1 == [d EXCEPT !.adjs = @ \cup {row}, !.nextAdj = row.id + 1]
    IN  IF Raised(d) THEN d
        ELSE IF d.conn.needs_rollback THEN Broken(d)
        ELSE SendSignal(d1, "Adjustment", row, "created")

SaveAdj(d, row) ==
    LET d1 == [d EXCEPT !.adjs = {j \in @ : j.id /= row.id} \cup {row}]
    IN  IF Raised(d) THEN d
        ELSE IF d.conn.needs_rollback THEN Broken(d)
        ELSE SendSignal(d1, "Adjustment", row, "updated")

\* reversal_of is on_delete=SET_NULL.
DeleteAdj(d, row) ==
    LET nulled == {IF j.reversal_of = row.id
                   THEN [j EXCEPT !.reversal_of = 0] ELSE j
                   : j \in {u \in d.adjs : u.id /= row.id}}
        d1 == [d EXCEPT !.adjs = nulled]
    IN  IF Raised(d) THEN d
        ELSE IF d.conn.needs_rollback THEN Broken(d)
        ELSE SendSignal(d1, "Adjustment", row, "deleted")

\* AdjustmentSerializer.validate.
\* The serializer without any test of the reason.
ValidateAdjustmentAnyReason(inst, attrs) ==
    IF attrs.old_amount = None \/ attrs.new_amount = None
    THEN "amounts_required"
    ELSE "ok"

\* The reason field of the ModelSerializer (a TextField without blank=True:
\* required on create, never blank), then AdjustmentSerializer.validate.
ValidateAdjustment(inst, attrs) ==
    LET reason == IF attrs.reason /= None /\ attrs.reason /= Some("")
                  THEN attrs.reason
                  ELSE IF inst /= None THEN Some(inst[1].reason) ELSE None
    IN  IF attrs.reason = Some("") THEN "reason_blank"
        ELSE IF reason = None \/ reason = Some("") THEN "reason_required"
        ELSE IF attrs.old_amount = None \/ attrs.new_amount = None
        THEN "amounts_required"
        ELSE "ok"

\* A create_reverse without its guard; ReversalNeverReversible rejects it.
IsReversalNeverChecked(orig) == FALSE

\* The guard at the top of create_reverse.
IsReversal(orig) == orig.reversal_of /= 0 \/ orig.is_reversal

\* A reverse row that copies the amounts unswapped; ReversalRoundTrip rejects it.
ReverseAmountsNotSwapped(orig) == [old |-> orig.old_amount, new |-> orig.new_amount]

\* The amounts of the reverse row: old_amount = orig.new_amount and
\* new_amount = orig.old_amount.
ReverseAmounts(orig) == [old |-> orig.new_amount, new |-> orig.old_amount]

\* Adjustment.create_reverse. [ok, err, db, rev]. The try block after the INSERT
\* names a field that is no column (reversed_by): refresh_from_db() or save()
\* raises and the handler ignores it. The atomic() block is then left without
\* an exception, and the reverse row is returned whether the block committed
\* or rolled back.
\* rev_reason, with the default prefix.
ReversalReason(orig) ==
    "Reversal of adjustment " \o ToString(orig.id) \o ": " \o orig.reason

CreateReverseModel(d, orig) ==
    IF IsReversal(orig)
    THEN [ok |-> FALSE, err |-> "ValueError", db |-> d, rev |-> 0]
    ELSE IF ~ReversalOfIsFree(d, orig.id)
    THEN [ok |-> FALSE, err |-> "IntegrityError", db |-> Rollback(d, d), rev |-> 0]
    ELSE [ok |-> TRUE, err |-> "",
          db |-> EndAtomic(d, CreateAdj(d, orig.account, ReverseAmounts(orig).old,
                                        ReverseAmounts(orig).new, ReversalReason(orig), TRUE,
                                        orig.id)),
          rev |-> d.nextAdj]

\* ---------------------------------------------------------------- calls
Op(op, ok, err, acc, other, id, amount, step) ==
    [op |-> op, ok |-> ok, err |-> err, acc |-> acc, other |-> other,
     id |-> id, amount |-> amount, step |-> step,
     cur_differs |-> FALSE,  \* a row the call asks for would carry a currency
                             \* other than that of its account
     fault |-> FALSE,        \* the audit writes of the call raised
     no_reason |-> FALSE,    \* the payload has no reason, or an empty one
     same_account |-> FALSE] \* a transfer from an account to itself

\* lastMut[a]: "adj_create" right after adjustment id was created on a, with
\* pre the balance just before it; "adj_reversed" when that adjustment was
\* reversed with nothing in between; "other" after any other mutation.
NoMut == [kind |-> "none", id |-> 0, pre |-> 0]
OtherMut == [kind |-> "other", id |-> 0, pre |-> 0]
Touched(S) == [a \in Accounts |-> IF a \in S THEN OtherMut ELSE lastMut[a]]

InitialBalanceOf(a) == IF a = 1 THEN 10000 ELSE 5000

\* Accounts as AccountSerializer.create leaves them: the row, then one
\* recalculate_balance(save_snapshot=False).
InitDb ==
    [accounts |-> [a \in Accounts |->
                     [initial_balance |-> InitialBalanceOf(a), currency |-> "USD",
                      balance |-> InitialBalanceOf(a)]],
     txs |-> {}, nextTx |-> 1,
     adjs |-> {}, nextAdj |-> 1,
     snapshots |-> {},
     audit |-> EmptyBag,
     invitations |-> {}, memberships |-> {}, now |-> 0,
     conn |-> IdleConn, audit_raises |-> FALSE, exc |-> ""]

\* ---------------------------------------------------------------- duplicates
\* The key of the naive duplicate detection, with the date left out.
DuplicateKeyNoDate(tx) == <<tx.account, DecimalStr(tx.amount)>>

\* key = (tx.account_id, str(tx.amount), tx.date.isoformat()).
DuplicateKey(tx) == <<tx.account, DecimalStr(tx.amount), <<"isoformat", tx.date>>>>

\* order_by("account_id", "date", "amount"): whether row t may come before
\* row u. Rows equal in all three come in the order the database picks.
MayPrecede(t, u) ==
    \/ t.account < u.account
    \/ t.account = u.account /\ t.date < u.date
    \/ t.account = u.account /\ t.date = u.date /\ t.amount <= u.amount

\* The orders in which the database may return the rows of qs.
QueryOrders(qs) ==
    {seq \in [1..Cardinality(qs) -> qs] :
        /\ \A i, j \in DOMAIN seq : i /= j => seq[i] /= seq[j]
        /\ \A i, j \in DOMAIN seq : i < j => MayPrecede(seq[i], seq[j])}

\* The loop of mark_duplicates from position i on: [db, marked].
RECURSIVE MarkLoop(_, _, _, _, _)
MarkLoop(d, seq, i, seen, marked) ==
    IF i > Len(seq) \/ Raised(d) THEN [db |-> d, marked |-> marked]
    ELSE IF DuplicateKey(seq[i]) \in seen
    THEN MarkLoop(SaveTx(d, [seq[i] EXCEPT !.is_duplicate = TRUE]), seq, i + 1, seen,
                  marked + 1)
    ELSE MarkLoop(d, seq, i + 1, seen \cup {DuplicateKey(seq[i])}, marked)

\* ---------------------------------------------------------------- workers
Procs == {1, 2}

\* The writes of an open database transaction, seen by nobody else until COMMIT.
\* balance is the pending UPDATE of the account row (which holds its row lock).
NoWrites ==
    [txs |-> {}, adjs |-> {}, snapshots |-> {}, audit |-> EmptyBag, balance |-> None]

IdleProc ==
    [pc |-> "idle", job |-> "none", acc |-> 0, orig |-> 0, obj |-> 0,
     receivers |-> 0, new_balance |-> 0, err |-> "", w |-> NoWrites]

Init ==
    /\ db = InitDb
    /\ lastOp = Op("init", TRUE, "", 0, 0, 0, 0, 0)
    /\ lastMut = [a \in Accounts |-> NoMut]
    /\ procs = [p \in Procs |-> IdleProc]
    /\ calls = 0

\* Whether the request that ends on connection d commits.
Commits(d) == ~Raised(d) /\ ~d.conn.needs_rollback

\* The response of the transaction endpoints: TransactionSerializer.data
\* reads account.owner for account_detail, one more query.
RenderTransaction(d) ==
    IF Raised(d) THEN d ELSE IF d.conn.needs_rollback THEN Broken(d) ELSE d

\* The currency of a row created without one in the payload.
\* The state after a direct create_transfer whose outcome is r.
DirectTransferDone(r, a, b, x) ==
    /\ r.ok => db.nextTx + 1 <= MaxTx
    /\ db' = IF r.ok THEN EndRequest(db, r.db) ELSE Rollback(db, r.db)
    /\ lastOp' = [Op("create_transfer_direct", r.ok, r.err,
                     IF r.ok THEN a ELSE 0, IF r.ok THEN b ELSE 0, r.out, x, 0)
                    EXCEPT !.same_account = a = b]
    /\ lastMut' = IF r.ok THEN Touched({a, b}) ELSE lastMut
    /\ calls' = IF r.ok THEN calls + 1 ELSE calls

\* Transaction.create_transfer called on its own, as the tests call it, with
\* no serializer in front of it.
CreateTransferDirect(a, b, x) ==
    /\ UNCHANGED procs
    /\ calls < MaxCalls
    /\ DirectTransferDone(CreateTransferModel(BeginRequest(db, FALSE), a, b, x, None, 0),
                          a, b, x)

\* The end of mark_duplicates: r is what its loop returned.
MarkDuplicatesDone(r, account, audit_raises) ==
    /\ db' = EndRequest(db, r.db)
    /\ lastOp' = [Op("mark_duplicates", ~Raised(r.db), r.db.exc,
                     IF account = None THEN 0 ELSE account[1], 0, 0,
                     IF Raised(r.db) THEN 0 ELSE r.marked, 0)
                    EXCEPT !.fault = audit_raises]
    /\ calls' = calls + 1

\* POST /transactions/mark-duplicates/ with the optional account filter, the
\* database returning the rows in one of the orders its ORDER BY allows.
MarkDuplicates(account, audit_raises) ==
    /\ UNCHANGED <<procs, lastMut>>
    /\ calls < MaxCalls
    /\ \E seq \in QueryOrders({t \in db.txs : account = None \/ t.account = account[1]}) :
          MarkDuplicatesDone(MarkLoop(BeginRequest(db, audit_raises), seq, 1, {}, 0),
                             account, audit_raises)

StoredCurrency(cur) == IF cur = None THEN DefaultCurrency ELSE cur[1]

\* POST /transactions/ with an income or expense payload.
CreateTransaction(a, inp, cur, audit_raises) ==
    /\ UNCHANGED procs
    /\ calls < MaxCalls
    /\ LET attrs == [account |-> Some(a), amount |-> Some(inp.amount),
                     currency |-> cur, type |-> Some(inp.type),
                     transfer_to_account |-> None]
           v == ValidateTransaction(db, None, attrs)
           r == RenderTransaction(CreateTx(BeginRequest(db, audit_raises), a, inp.amount,
                                           StoredCurrency(cur), inp.type))
           differs == StoredCurrency(cur) /= db.accounts[a].currency
       IN  IF v /= "ok"
           THEN /\ ~audit_raises
                /\ db' = db
                /\ lastOp' = [Op("create_transaction", FALSE, v, 0, 0, 0, inp.amount, 0)
                                EXCEPT !.cur_differs = differs]
                /\ UNCHANGED <<lastMut, calls>>
           ELSE /\ db.nextTx <= MaxTx
                /\ db' = EndRequest(db, r)
                /\ lastOp' = [Op("create_transaction", ~Raised(r), r.exc, a, 0, db.nextTx,
                                 inp.amount, 0)
                                EXCEPT !.cur_differs = differs, !.fault = audit_raises]
                /\ calls' = IF Raised(r) THEN calls ELSE calls + 1
                /\ lastMut' = IF Raised(r) THEN lastMut ELSE Touched({a})

\* PATCH /transactions/<id>/ carrying account and amount (and, for a transfer
\* row, transfer_to_account).
UpdateTransaction(id, na, nv, dest, audit_raises) ==
    /\ UNCHANGED procs
    /\ calls < MaxCalls
    /\ \E t \in db.txs : t.id = id
    /\ LET row == TxById(db, id)
           attrs == [account |-> Some(na), amount |-> Some(nv), currency |-> None,
                     type |-> None, transfer_to_account |-> dest]
           v == ValidateTransaction(db, Some(row), attrs)
           r == RenderTransaction(SaveTx(BeginRequest(db, audit_raises),
                                         [row EXCEPT !.account = na, !.amount = nv]))
       IN  /\ row.type = "transfer" \/ dest = None
           /\ IF v /= "ok"
              THEN /\ ~audit_raises
                   /\ db' = db
                   /\ lastOp' = Op("update_transaction", FALSE, v, 0, 0, id, nv, 0)
                   /\ UNCHANGED <<lastMut, calls>>
              ELSE /\ calls < MaxCalls
                   /\ db' = EndRequest(db, r)
                   /\ lastOp' = [Op("update_transaction", ~Raised(r), r.exc, na, row.account,
                                    id, nv, 0)
                                   EXCEPT !.fault = audit_raises]
                   /\ calls' = IF Raised(r) THEN calls ELSE calls + 1
                   /\ lastMut' = IF Raised(r) THEN lastMut ELSE Touched({row.account, na})

\* DELETE /transactions/<id>/: 204 and no body, whatever the handlers did.
DeleteTransaction(id, audit_raises) ==
    /\ UNCHANGED procs
    /\ calls < MaxCalls
    /\ \E t \in db.txs : t.id = id
    /\ LET row == TxById(db, id)
           r == DeleteTx(BeginRequest(db, audit_raises), row)
       IN  /\ db' = EndRequest(db, r)
           /\ lastOp' = [Op("delete_transaction", TRUE, "", row.account, 0, id, row.amount, 0)
                           EXCEPT !.fault = audit_raises]
           /\ calls' = IF Commits(r) THEN calls + 1 ELSE calls
           /\ lastMut' = IF Commits(r) THEN Touched({row.account}) ELSE lastMut

\* POST /transactions/ with type transfer and transfer_to_account: validate,
\* then Transaction.create_transfer inside atomic().
CreateTransfer(a, b, x, cur, fail_at, audit_raises) ==
    /\ UNCHANGED procs
    /\ calls < MaxCalls
    /\ LET attrs == [account |-> Some(a), amount |-> Some(x), currency |-> cur,
                     type |-> Some("transfer"), transfer_to_account |-> Some(b)]
           v == ValidateTransaction(db, None, attrs)
           r == CreateTransferModel(BeginRequest(db, audit_raises), a, b, x, cur, fail_at)
           currency == IF cur = None THEN db.accounts[a].currency ELSE cur[1]
           differs == currency /= db.accounts[a].currency
                      \/ currency /= db.accounts[b].currency
       IN  IF v /= "ok"
           THEN /\ fail_at = 0
                /\ ~audit_raises
                /\ db' = db
                /\ lastOp' = [Op("create_transfer", FALSE, v, 0, 0, 0, x, 0)
                                EXCEPT !.cur_differs = differs, !.same_account = a = b]
                /\ UNCHANGED <<lastMut, calls>>
           ELSE /\ db.nextTx + 1 <= MaxTx
                /\ db' = IF r.ok THEN EndRequest(db, r.db) ELSE Rollback(db, r.db)
                /\ lastOp' = IF r.ok
                             THEN [Op("create_transfer", TRUE, "", a, b, r.out, x, 0)
                                     EXCEPT !.cur_differs = differs]
                             ELSE [Op("create_transfer", FALSE, r.err, 0, 0, 0, x, fail_at)
                                     EXCEPT !.fault = audit_raises]
                /\ lastMut' = IF r.ok THEN Touched({a, b}) ELSE lastMut
                /\ calls' = IF r.ok THEN calls + 1 ELSE calls

\* POST /adjustments/: 201 with the row as the serializer holds it.
CreateAdjustment(a, inp, reason, audit_raises) ==
    /\ UNCHANGED procs
    /\ calls < MaxCalls
    /\ LET attrs == [old_amount |-> Some(inp.old), new_amount |-> Some(inp.new),
                     reason |-> reason]
           v == ValidateAdjustment(None, attrs)
           r == CreateAdj(BeginRequest(db, audit_raises), a, inp.old, inp.new,
                          IF reason = None THEN "" ELSE reason[1], FALSE, 0)
       IN  IF v /= "ok"
           THEN /\ ~audit_raises
                /\ db' = db
                /\ lastOp' = [Op("create_adjustment", FALSE, v, 0, 0, 0, 0, 0)
                                EXCEPT !.no_reason = reason \in {None, Some("")}]
                /\ UNCHANGED <<lastMut, calls>>
           ELSE /\ db.nextAdj <= MaxAdj
                /\ db' = EndRequest(db, r)
                /\ lastOp' = [Op("create_adjustment", TRUE, "", a, 0, db.nextAdj, 0, 0)
                                EXCEPT !.fault = audit_raises,
                                       !.no_reason = reason \in {None, Some("")}]
                /\ calls' = IF Commits(r) THEN calls + 1 ELSE calls
                /\ lastMut' = IF ~Commits(r) THEN lastMut
                              ELSE [lastMut EXCEPT ![a] =
                                      [kind |-> "adj_create", id |-> db.nextAdj,
                                       pre |-> GetBalance(db, a)]]

\* PUT /adjustments/<id>/ carrying account, old_amount and new_amount.
UpdateAdjustment(id, na, inp, reason, audit_raises) ==
    /\ UNCHANGED procs
    /\ calls < MaxCalls
    /\ \E j \in db.adjs : j.id = id
    /\ LET row == AdjById(db, id)
           attrs == [old_amount |-> Some(inp.old), new_amount |-> Some(inp.new),
                     reason |-> reason]
           v == ValidateAdjustment(Some(row), attrs)
           r == SaveAdj(BeginRequest(db, audit_raises),
                        [row EXCEPT !.account = na, !.old_amount = inp.old,
                                    !.new_amount = inp.new,
                                    !.reason = IF reason = None THEN @ ELSE reason[1]])
       IN  IF v /= "ok"
           THEN /\ ~audit_raises
                /\ db' = db
                /\ lastOp' = [Op("update_adjustment", FALSE, v, 0, 0, id, 0, 0)
                                EXCEPT !.no_reason = reason = Some("")]
                /\ UNCHANGED <<lastMut, calls>>
           ELSE /\ calls < MaxCalls
                /\ db' = EndRequest(db, r)
                /\ lastOp' = [Op("update_adjustment", TRUE, "", na, row.account, id, 0, 0)
                                EXCEPT !.fault = audit_raises,
                                       !.no_reason = reason = Some("")]
                /\ calls' = IF Commits(r) THEN calls + 1 ELSE calls
                /\ lastMut' = IF Commits(r) THEN Touched({row.account, na}) ELSE lastMut

\* DELETE /adjustments/<id>/.
DeleteAdjustment(id, audit_raises) ==
    /\ UNCHANGED procs
    /\ calls < MaxCalls
    /\ \E j \in db.adjs : j.id = id
    /\ LET row == AdjById(db, id)
           r == DeleteAdj(BeginRequest(db, audit_raises), row)
       IN  /\ db' = EndRequest(db, r)
           /\ lastOp' = [Op("delete_adjustment", TRUE, "", row.account, 0, id, 0, 0)
                           EXCEPT !.fault = audit_raises]
           /\ calls' = IF Commits(r) THEN calls + 1 ELSE calls
           /\ lastMut' = IF Commits(r) THEN Touched({row.account}) ELSE lastMut

\* POST /adjustments/<id>/reverse/: 201 with the id of the row create_reverse
\* returned, 400 when it raised.
CreateReverse(id, audit_raises) ==
    /\ UNCHANGED procs
    /\ calls < MaxCalls
    /\ \E j \in db.adjs : j.id = id
    /\ LET row == AdjById(db, id)
           r == CreateReverseModel(BeginRequest(db, audit_raises), row)
           stored == r.ok /\ r.db.adjs /= db.adjs
       IN  /\ r.ok => db.nextAdj <= MaxAdj
           /\ ~r.ok => ~audit_raises
           /\ db' = EndRequest(db, r.db)
           /\ lastOp' = [Op("create_reverse", r.ok, r.err, row.account, 0, id, 0, 0)
                           EXCEPT !.fault = audit_raises]
           /\ lastMut' =
                 IF ~stored THEN lastMut
                 ELSE IF lastMut[row.account].kind = "adj_create"
                         /\ lastMut[row.account].id = id
                 THEN [lastMut EXCEPT ![row.account].kind = "adj_reversed"]
                 ELSE Touched({row.account})
           /\ calls' = IF stored THEN calls + 1 ELSE calls

\* POST /accounts/<id>/recalculate/ (save_snapshot=True; 500 when it raises), or
\* a recalculate_balance(save_snapshot=False) as AccountSerializer.create makes.
Recalculate(a, save_snapshot) ==
    /\ UNCHANGED procs
    /\ calls < MaxCalls
    /\ LET r == RecalculateBalance(BeginRequest(db, FALSE), a, save_snapshot)
       IN  /\ db' = EndRequest(db, r.db)
           /\ lastOp' = Op(IF save_snapshot THEN "recalculate_snapshot" ELSE "recalculate",
                           r.ok, IF r.ok THEN "" ELSE "IntegrityError", a, 0, 0, r.ret, 0)
           /\ calls' = IF save_snapshot /\ r.ok THEN calls + 1 ELSE calls
           /\ UNCHANGED lastMut

\* The amount of the transfers whose writes fail and of the direct calls
\* between any two accounts; from an account to itself a direct call tries
\* every amount of TransferAmounts.
DirectTransferAmount == 3000

\* The reasons of an update: none (a partial update) or an empty one.
UpdateReasons == {None, Some("")}

Reasons == {None, Some(""), Some("Correction")}

Next ==
    \/ \E a \in Accounts, inp \in TxInputs, cur \in Currencies :
          CreateTransaction(a, inp, cur, FALSE)
    \/ \E a \in Accounts, inp \in TxInputs : CreateTransaction(a, inp, None, TRUE)
    \/ \E id \in 1..MaxTx, na \in Accounts, nv \in TxUpdateAmounts,
          dest \in {None} \cup {Some(b) : b \in Accounts} :
          UpdateTransaction(id, na, nv, dest, FALSE)
    \/ \E id \in 1..MaxTx, na \in Accounts, nv \in TxUpdateAmounts :
          UpdateTransaction(id, na, nv, None, TRUE)
    \/ \E id \in 1..MaxTx, na \in Accounts : UpdateTransaction(id, na, 0, None, FALSE)
    \/ \E id \in 1..MaxTx, f \in BOOLEAN : DeleteTransaction(id, f)
    \/ \E a, b \in Accounts, x \in TransferAmounts, cur \in Currencies :
          CreateTransfer(a, b, x, cur, 0, FALSE)
    \/ \E a, b \in Accounts, k \in 1..4 :
          CreateTransfer(a, b, DirectTransferAmount, None, k, FALSE)
    \/ \E a, b \in Accounts : CreateTransfer(a, b, DirectTransferAmount, None, 0, TRUE)
    \/ \E a, b \in Accounts : CreateTransferDirect(a, b, DirectTransferAmount)
    \/ \E a \in Accounts, x \in TransferAmounts : CreateTransferDirect(a, a, x)
    \/ \E a \in Accounts, inp \in AdjInputs, reason \in Reasons, f \in BOOLEAN :
          CreateAdjustment(a, inp, reason, f)
    \/ \E id \in 1..MaxAdj, na \in Accounts, inp \in AdjUpdateInputs,
          reason \in UpdateReasons, f \in BOOLEAN :
          UpdateAdjustment(id, na, inp, reason, f)
    \/ \E id \in 1..MaxAdj, f \in BOOLEAN : DeleteAdjustment(id, f)
    \/ \E id \in 1..MaxAdj, f \in BOOLEAN : CreateReverse(id, f)
    \/ \E a \in Accounts, save_snapshot \in BOOLEAN : Recalculate(a, save_snapshot)

Spec == Init /\ [][Next]_vars

\* The same ledger with the second account kept in another currency
\* (Account.currency is a free three-letter code).
InitCur ==
    /\ db = [InitDb EXCEPT !.accounts[2].currency = "EUR"]
    /\ lastOp = Op("init", TRUE, "", 0, 0, 0, 0, 0)
    /\ lastMut = [a \in Accounts |-> NoMut]
    /\ procs = [p \in Procs |-> IdleProc]
    /\ calls = 0

SpecCur == InitCur /\ [][Next]_vars

\* ---------------------------------------------------------------- SpecAcct
\* The ledger together with the two ways an account row itself is edited.
AccountInitialBalances == {10000, 12000}
AdminBalances == {0, 99900}

\* PATCH /accounts/<a>/ {initial_balance}: AccountSerializer declares balance
\* read-only, so update() sets initial_balance alone and save() rewrites the
\* balance the instance was loaded with. Account has no post_save receiver.
UpdateAccount(a, initial_balance) ==
    /\ UNCHANGED <<procs, lastMut>>
    /\ calls < MaxCalls
    /\ db' = [db EXCEPT !.accounts[a].initial_balance = initial_balance]
    /\ lastOp' = Op("update_account", TRUE, "", a, 0, 0, initial_balance, 0)
    /\ calls' = calls + 1

\* The admin's change form of an account: AccountAdmin names neither fields
\* nor readonly_fields, so the form carries every editable field of Account,
\* balance among them, and save_model() stores what was typed in.
AdminChangeAccount(a, initial_balance, balance) ==
    /\ UNCHANGED <<procs, lastMut>>
    /\ calls < MaxCalls
    /\ db' = [db EXCEPT !.accounts[a].initial_balance = initial_balance,
                        !.accounts[a].balance = balance]
    /\ lastOp' = Op("admin_change_account", TRUE, "", a, 0, 0, balance, 0)
    /\ calls' = calls + 1

NextAcct ==
    \/ \E a \in Accounts, inp \in TxInputs : CreateTransaction(a, inp, None, FALSE)
    \/ \E a \in Accounts, inp \in AdjInputs, reason \in Reasons :
          CreateAdjustment(a, inp, reason, FALSE)
    \/ \E a \in Accounts, save_snapshot \in BOOLEAN : Recalculate(a, save_snapshot)
    \/ \E a \in Accounts, v \in AccountInitialBalances : UpdateAccount(a, v)
    \/ \E a \in Accounts, v \in AccountInitialBalances, b \in AdminBalances :
          AdminChangeAccount(a, v, b)

SpecAcct == Init /\ [][NextAcct]_vars

\* ---------------------------------------------------------------- SpecInv
\* apps.accounts: invitations to a family and the memberships they create.
\* db.now is timezone.now(), a whole number of hours.
MaxNow == 1
MaxResend == 1
Users == {1, 2, 3}
Invitations == {1, 2}

\* Invitation.is_expired.
IsExpired(invitation, now) ==
    IF invitation.expires_at = None THEN FALSE
    ELSE now >= invitation.expires_at[1]

InvitationById(d, id) == CHOOSE i \in d.invitations : i.id = id

SaveInvitation(d, invitation) ==
    [d EXCEPT !.invitations = {i \in @ : i.id /= invitation.id} \cup {invitation}]

\* Family.add_member (every invitation of the model is to one family):
\* get_or_create on (family, user), the role of an existing row updated.
AddMember(d, user, role) ==
    [d EXCEPT !.memberships =
        {m \in @ : m.user /= user} \cup {[user |-> user, role |-> role]}]

\* Invitation.accept: [membership, db], membership None or Some(user).
AcceptModel(d, invitation, user) ==
    IF invitation.status /= "pending" \/ IsExpired(invitation, d.now)
    THEN [membership |-> None, db |-> d]
    ELSE [membership |-> Some(user),
          db |-> SaveInvitation(AddMember(d, user, "participant"),
                                [invitation EXCEPT !.status = "accepted",
                                                   !.accepted_at = Some(d.now)])]

\* The e-mail address of a user ("" for none) and the one every invitation
\* of the model is sent to.
EmailOf(user) == IF user = 1 THEN "bob@example.com" ELSE IF user = 2 THEN "" ELSE "eve@example.com"
InvitationEmail == "bob@example.com"

\* POST /invitations/<id>/accept/ by user, first half: get_object loads the
\* invitation into the request of worker p, and the view refuses a user whose
\* e-mail address is another one.
GetObject(p, id, user) ==
    /\ UNCHANGED <<db, lastMut, calls>>
    /\ procs[p].pc = "idle"
    /\ IF EmailOf(user) /= "" /\ InvitationEmail /= EmailOf(user)
       THEN /\ procs' = procs
            /\ lastOp' = Op("accept_forbidden", FALSE, "", 0, user, id, 0, 0)
       ELSE /\ procs' = [procs EXCEPT ![p] =
                            [pc |-> "loaded", job |-> "accept", user |-> user,
                             invitation |-> InvitationById(db, id)]]
            /\ lastOp' = Op("get_object", TRUE, "", 0, user, id, 0, 0)

\* Second half: invitation.accept(request.user) on the loaded instance, and
\* the commit of the request.
Accept(p) ==
    /\ UNCHANGED <<lastMut, calls>>
    /\ procs[p].pc = "loaded"
    /\ LET r == AcceptModel(db, procs[p].invitation, procs[p].user)
       IN  /\ db' = r.db
           /\ lastOp' = Op("accept", r.membership /= None, "", 0,
                           procs[p].user, procs[p].invitation.id, 0, 0)
    /\ procs' = [procs EXCEPT ![p] = IdleProc]

\* Invitation.mark_expired_if_needed.
MarkExpiredIfNeeded(id) ==
    /\ UNCHANGED <<procs, lastMut, calls>>
    /\ LET invitation == InvitationById(db, id)
       IN  /\ db' = IF IsExpired(invitation, db.now) /\ invitation.status = "pending"
                    THEN SaveInvitation(db, [invitation EXCEPT !.status = "expired"])
                    ELSE db
           /\ lastOp' = Op("mark_expired_if_needed", TRUE, "", 0, 0, id, 0, 0)

\* Invitation.resend, the mail going out or failing.
Resend(id, sent) ==
    /\ UNCHANGED <<procs, lastMut, calls>>
    /\ LET invitation == InvitationById(db, id)
       IN  IF invitation.status /= "pending"
           THEN /\ db' = db
                /\ lastOp' = Op("resend", FALSE, "", 0, 0, id, 0, 0)
           ELSE IF IsExpired(invitation, db.now)
           THEN /\ db' = SaveInvitation(db, [invitation EXCEPT !.status = "expired"])
                /\ lastOp' = Op("resend", FALSE, "", 0, 0, id, 0, 0)
           ELSE IF sent /\ invitation.resend_count < MaxResend
           THEN /\ db' = SaveInvitation(db, [invitation EXCEPT !.resend_count = @ + 1])
                /\ lastOp' = Op("resend", TRUE, "", 0, 0, id, 0, 0)
           ELSE /\ ~sent
                /\ db' = db
                /\ lastOp' = Op("resend", FALSE, "", 0, 0, id, 0, 0)

\* Time passes.
Tick ==
    /\ UNCHANGED <<procs, lastMut, calls>>
    /\ db.now < MaxNow
    /\ db' = [db EXCEPT !.now = @ + 1]
    /\ lastOp' = Op("tick", TRUE, "", 0, 0, 0, 0, 0)

\* Invitations as created (pending) or revoked in the admin, with and without
\* an expiry date; the family with or without a first member.
InitInv ==
    /\ \E e \in [Invitations -> {None, Some(1)}],
          st \in [Invitations -> {"pending", "revoked"}],
          members \in {{}, {[user |-> 1, role |-> "viewer"]}} :
          db = [InitDb EXCEPT
                  !.invitations = {[id |-> i, status |-> st[i], expires_at |-> e[i],
                                    accepted_at |-> None, resend_count |-> 0] :
                                     i \in Invitations},
                  !.memberships = members]
    /\ lastOp = Op("init", TRUE, "", 0, 0, 0, 0, 0)
    /\ lastMut = [a \in Accounts |-> NoMut]
    /\ procs = [p \in Procs |-> IdleProc]
    /\ calls = 0

NextInv ==
    \/ \E p \in Procs, id \in Invitations, user \in Users : GetObject(p, id, user)
    \/ \E p \in Procs : Accept(p)
    \/ \E id \in Invitations : MarkExpiredIfNeeded(id)
    \/ \E id \in Invitations, sent \in BOOLEAN : Resend(id, sent)
    \/ Tick

SpecInv == InitInv /\ [][NextInv]_vars

\* ---------------------------------------------------------------- SpecDup
\* Ledgers of MaxTx unflagged transactions to look for duplicates in.
DupAmounts == {-2000, 1500}
DupDates == {Today, Today + 1}

CandidateRows(id) ==
    {[TxRow(id, a, x, "USD", IF x < 0 THEN "expense" ELSE "income", 0)
        EXCEPT !.date = dt] :
       a \in Accounts, x \in DupAmounts, dt \in DupDates}

\* The ledger with the rows txs, every cached balance recalculated.
Ledger(txs) ==
    LET d == [InitDb EXCEPT !.txs = txs, !.nextTx = MaxTx + 1]
    IN  [d EXCEPT !.accounts = [a \in Accounts |->
                                  [d.accounts[a] EXCEPT !.balance = GetBalance(d, a)]]]

InitDup ==
    /\ \E f \in [1..MaxTx -> UNION {CandidateRows(id) : id \in 1..MaxTx}] :
          /\ \A id \in 1..MaxTx : f[id] \in CandidateRows(id)
          /\ db = Ledger({f[id] : id \in 1..MaxTx})
    /\ lastOp = Op("init", TRUE, "", 0, 0, 0, 0, 0)
    /\ lastMut = [a \in Accounts |-> NoMut]
    /\ procs = [p \in Procs |-> IdleProc]
    /\ calls = 0

\* POST /transactions/mark-duplicates/ without and with account_id.
NextDup ==
    \/ \E f \in BOOLEAN : MarkDuplicates(None, f)
    \/ \E a \in Accounts, f \in BOOLEAN : MarkDuplicates(Some(a), f)

SpecDup == InitDup /\ [][NextDup]_vars

\* ================================================================ workers
\* Calls running at the same time, one per worker, each a sequence of SQL
\* statements against PostgreSQL at READ COMMITTED: a statement sees the rows
\* committed before it started plus the open transaction's own writes; an
\* UPDATE of a row waits for the transaction that holds the row's lock; an
\* INSERT of a key of a UNIQUE index waits for the transaction that inserted the
\* same key.
\*   tx_request   POST /transactions/ under ATOMIC_REQUESTS: one transaction
\*   tx_direct    Transaction.objects.create outside any transaction (a worker,
\*                a command, a shell): every statement and every atomic() block
\*                of recalculate_balance commits on its own
\*   reverse      Adjustment.create_reverse, inside its atomic() block
\*   recalc_task  the recalculate_account_balance task: recalculate_balance
\*                with save_snapshot=True, inside its atomic() block
ConcAccounts == {1}

ConcTxAmounts == {-2000}

Transactional(job) == job \in {"tx_request", "reverse", "recalc_task"}

\* What worker p's statements see.
View(p) ==
    [db EXCEPT !.txs = @ \cup procs[p].w.txs,
               !.adjs = @ \cup procs[p].w.adjs,
               !.snapshots = @ \cup procs[p].w.snapshots]

\* The uncommitted rows of the workers other than p.
PendingElsewhere(p) ==
    [adjs |-> UNION {procs[q].w.adjs : q \in Procs \ {p}},
     snapshots |-> UNION {procs[q].w.snapshots : q \in Procs \ {p}}]

\* No other open transaction has updated the row of account a.
RowLockFree(p, a) ==
    \A q \in Procs \ {p} : procs[q].w.balance = None \/ procs[q].acc /= a

\* COMMIT of the writes w.
Commit(d, a, w) ==
    [d EXCEPT !.txs = @ \cup w.txs,
              !.adjs = @ \cup w.adjs,
              !.snapshots = @ \cup w.snapshots,
              !.audit = @ (+) w.audit,
              !.accounts[a].balance = IF w.balance = None THEN @ ELSE w.balance[1]]

Step(p, rec) == procs' = [procs EXCEPT ![p] = rec]

BeginCreate(p, job, a) ==
    /\ procs[p].pc = "idle"
    /\ Step(p, [IdleProc EXCEPT !.pc = "insert", !.job = job, !.acc = a])
    /\ UNCHANGED <<db, lastOp, lastMut, calls>>

\* The view's get_object() loads the adjustment, then create_reverse runs.
BeginReverse(p, id) ==
    /\ procs[p].pc = "idle"
    /\ \E j \in db.adjs : j.id = id
    /\ Step(p, [IdleProc EXCEPT !.pc = "insert", !.job = "reverse",
                                !.acc = AdjById(db, id).account, !.orig = id])
    /\ UNCHANGED <<db, lastOp, lastMut, calls>>

BeginRecalcTask(p, a) ==
    /\ procs[p].pc = "idle"
    /\ Step(p, [IdleProc EXCEPT !.pc = "read", !.job = "recalc_task", !.acc = a])
    /\ UNCHANGED <<db, lastOp, lastMut, calls>>

\* Transaction.objects.create: the INSERT. The id comes from a sequence, which
\* no rollback returns. post_save then runs its two receivers.
InsertTransaction(p, x) ==
    LET me == procs[p]
        row == TxRow(db.nextTx, me.acc, x, db.accounts[me.acc].currency, "expense", 0)
    IN  /\ me.pc = "insert"
        /\ me.job \in {"tx_request", "tx_direct"}
        /\ db' = [db EXCEPT !.nextTx = @ + 1,
                            !.txs = IF Transactional(me.job) THEN @ ELSE @ \cup {row}]
        /\ Step(p, [me EXCEPT !.pc = "read", !.obj = row.id, !.receivers = 2,
                              !.w.txs = IF Transactional(me.job) THEN @ \cup {row} ELSE @])
        /\ UNCHANGED <<lastOp, lastMut, calls>>

\* create_reverse: the guard, then the INSERT of the reverse row.
InsertReversal(p) ==
    LET me == procs[p]
        orig == AdjById(db, me.orig)
        row == AdjRow(db.nextAdj, orig.account, ReverseAmounts(orig).old,
                      ReverseAmounts(orig).new, ReversalReason(orig), TRUE, orig.id)
    IN  /\ me.pc = "insert"
        /\ me.job = "reverse"
        /\ UNCHANGED <<lastOp, lastMut, calls>>
        /\ IF IsReversal(orig)
           THEN /\ Step(p, [me EXCEPT !.pc = "failed", !.err = "ValueError"])
                /\ UNCHANGED db
           ELSE /\ ReversalOfIsFree(PendingElsewhere(p), orig.id)
                /\ IF ~ReversalOfIsFree(db, orig.id)
                   THEN /\ Step(p, [me EXCEPT !.pc = "failed", !.err = "IntegrityError",
                                              !.w = Rollback(NoWrites, me.w)])
                        /\ UNCHANGED db
                   ELSE /\ db' = [db EXCEPT !.nextAdj = @ + 1]
                        /\ Step(p, [me EXCEPT !.pc = "read", !.obj = row.id,
                                              !.receivers = 2,
                                              !.w.adjs = @ \cup {row}])

\* recalculate_balance, first half: get_balance().
RecalcRead(p) ==
    LET me == procs[p]
    IN  /\ me.pc = "read"
        /\ Step(p, [me EXCEPT !.pc = "write",
                              !.new_balance = GetBalance(View(p), me.acc)])
        /\ UNCHANGED <<db, lastOp, lastMut, calls>>

\* recalculate_balance, second half: the UPDATE of the account row with the
\* value read before; leaving the atomic() block commits it unless an outer
\* transaction is open. A receiver then writes its audit row.
RecalcWrite(p) ==
    LET me == procs[p]
        otype == IF me.job = "reverse" THEN "Adjustment" ELSE "Transaction"
        instance == IF me.job = "reverse" THEN AdjById(View(p), me.obj)
                    ELSE TxById(View(p), me.obj)
        rows == IF me.receivers > 0
                THEN SetToBag({AuditRow(otype, instance, "created")}) ELSE EmptyBag
        left == IF me.receivers > 0 THEN me.receivers - 1 ELSE 0
        next == IF me.job = "recalc_task" THEN "snapshot"
                ELSE IF left > 0 THEN "read"
                ELSE IF Transactional(me.job) THEN "commit" ELSE "done"
    IN  /\ me.pc = "write"
        /\ RowLockFree(p, me.acc)
        /\ UNCHANGED <<lastOp, lastMut, calls>>
        /\ IF Transactional(me.job)
           THEN /\ Step(p, [me EXCEPT !.pc = next, !.receivers = left,
                                      !.w.balance = Some(me.new_balance),
                                      !.w.audit = @ (+) rows])
                /\ UNCHANGED db
           ELSE /\ Step(p, [me EXCEPT !.pc = next, !.receivers = left])
                /\ db' = [db EXCEPT !.accounts[me.acc].balance = me.new_balance,
                                    !.audit = @ (+) rows]

\* BalanceSnapshot.objects.create under unique_together (account, date).
SnapshotInsert(p) ==
    LET me == procs[p]
    IN  /\ me.pc = "snapshot"
        /\ ~HasSnapshot(PendingElsewhere(p), me.acc)
        /\ UNCHANGED <<db, lastOp, lastMut, calls>>
        /\ IF HasSnapshot(db, me.acc)
           THEN Step(p, [me EXCEPT !.pc = "failed", !.err = "IntegrityError",
                                   !.w = Rollback(NoWrites, me.w)])
           ELSE Step(p, [me EXCEPT !.pc = "commit",
                                   !.w.snapshots = @ \cup {[account |-> me.acc,
                                                            balance |-> me.new_balance]}])

CommitWrites(p) ==
    LET me == procs[p]
    IN  /\ me.pc = "commit"
        /\ db' = Commit(db, me.acc, me.w)
        /\ Step(p, [me EXCEPT !.pc = "done", !.w = NoWrites])
        /\ UNCHANGED <<lastOp, lastMut, calls>>

\* One adjustment exists on the first account when the workers start.
InitConc ==
    /\ db = CreateAdj(InitDb, 1, 10000, 10500, "Correction", FALSE, 0)
    /\ lastOp = Op("init", TRUE, "", 0, 0, 0, 0, 0)
    /\ lastMut = [a \in Accounts |-> NoMut]
    /\ procs = [p \in Procs |-> IdleProc]
    /\ calls = 0

NextConc ==
    \/ \E p \in Procs, job \in {"tx_request", "tx_direct"}, a \in ConcAccounts :
          BeginCreate(p, job, a)
    \/ \E p \in Procs, id \in 1..MaxAdj : BeginReverse(p, id)
    \/ \E p \in Procs, a \in ConcAccounts : BeginRecalcTask(p, a)
    \/ \E p \in Procs, x \in ConcTxAmounts : InsertTransaction(p, x)
    \/ \E p \in Procs : InsertReversal(p)
    \/ \E p \in Procs : RecalcRead(p)
    \/ \E p \in Procs : RecalcWrite(p)
    \/ \E p \in Procs : SnapshotInsert(p)
    \/ \E p \in Procs : CommitWrites(p)

SpecConc == InitConc /\ [][NextConc]_vars

\* ---------------------------------------------------------------- SpecXfer
\* Transaction.create_transfer run by the workers at the same time, each in its
\* own database transaction, statement by statement. The UPDATE of an account
\* row takes the row's lock, kept until COMMIT or ROLLBACK.
XferAmounts == {3000}

\* balance[a] is the pending UPDATE of account a's row, None for none.
XferNoWrites ==
    [txs |-> {}, audit |-> EmptyBag, balance |-> [a \in Accounts |-> None]]

\* stage is the write of create_transfer that comes next or whose receivers
\* are running (1..4, in the order of TransferWrites).
XferIdle ==
    [pc |-> "idle", job |-> "transfer", from_account |-> 0, to_account |-> 0,
     amount |-> 0, fault |-> FALSE, out |-> 0, inc |-> 0, stage |-> 0, acc |-> 0,
     receivers |-> 0, new_balance |-> 0, err |-> "", w |-> XferNoWrites]

\* What the statements of worker p see: the committed rows and its own.
XferView(p) ==
    [db EXCEPT !.txs = {t \in @ : \A u \in procs[p].w.txs : u.id /= t.id}
                       \cup procs[p].w.txs]

\* Worker p holds the lock of account a's row.
HoldsRow(p, a) == procs[p].w.balance[a] /= None

\* Worker p has reached the UPDATE of an account row that worker q has locked.
WaitsFor(p, q) ==
    /\ p /= q
    /\ procs[p].pc = "write"
    /\ HoldsRow(q, procs[p].acc)

\* create_transfer(from_account, to_account, amount) is called; fault says
\* whether AuditLog.objects.create raises in this call.
BeginTransfer(p, from_account, to_account, amount, fault) ==
    /\ procs[p].pc = "idle"
    /\ UNCHANGED <<db, lastOp, lastMut, calls>>
    /\ IF SameAccount(from_account, to_account)
       THEN Step(p, [XferIdle EXCEPT !.pc = "failed", !.err = "ValueError",
                                     !.from_account = from_account,
                                     !.to_account = to_account, !.amount = amount])
       ELSE Step(p, [XferIdle EXCEPT !.pc = "insert", !.stage = 1, !.fault = fault,
                                     !.from_account = from_account,
                                     !.to_account = to_account, !.amount = amount])

\* The next of the four writes: INSERT out, INSERT inc, UPDATE out, UPDATE inc.
\* Its post_save then runs the two receivers on the account of the row.
TransferWrite(p) ==
    LET me == procs[p]
        currency == db.accounts[me.from_account].currency
        id == db.nextTx
        row == IF me.stage = 1
               THEN TxRow(id, me.from_account, TransferOutAmount(me.amount),
                          currency, "transfer", 0)
               ELSE IF me.stage = 2
               THEN TxRow(id, me.to_account, TransferInAmount(me.amount),
                          currency, "transfer", 0)
               ELSE IF me.stage = 3
               THEN [TxById(XferView(p), me.out) EXCEPT !.related_transaction = me.inc]
               ELSE [TxById(XferView(p), me.inc) EXCEPT !.related_transaction = me.out]
    IN  /\ me.pc = "insert"
        /\ me.job = "transfer"
        /\ db' = IF me.stage <= 2 THEN [db EXCEPT !.nextTx = @ + 1] ELSE db
        /\ Step(p, [me EXCEPT !.pc = "read", !.receivers = 2, !.acc = row.account,
                              !.out = IF me.stage = 1 THEN id ELSE @,
                              !.inc = IF me.stage = 2 THEN id ELSE @,
                              !.w.txs = {t \in @ : t.id /= row.id} \cup {row}])
        /\ lastOp' = Op("transfer_write", TRUE, "", me.from_account, me.to_account,
                        row.id, me.amount, me.stage)
        /\ UNCHANGED <<lastMut, calls>>

\* A receiver's recalculate_balance, first half: get_balance().
TransferRecalcRead(p) ==
    LET me == procs[p]
    IN  /\ me.pc = "read"
        /\ me.job = "transfer"
        /\ Step(p, [me EXCEPT !.pc = "write",
                              !.new_balance = GetBalance(XferView(p), me.acc)])
        /\ UNCHANGED <<db, lastOp, lastMut, calls>>

\* Second half: the UPDATE of the account row, which waits while another
\* transaction holds the row; then the receiver's audit row. When the audit
\* write raises, the connection is marked needs_rollback, the next INSERT of
\* create_transfer raises and the exception leaving the atomic() block rolls
\* the transfer back.
TransferRecalcWrite(p) ==
    LET me == procs[p]
        instance == TxById(XferView(p), IF me.stage \in {1, 3} THEN me.out ELSE me.inc)
        action == IF me.stage <= 2 THEN "created" ELSE "updated"
        left == me.receivers - 1
    IN  /\ me.pc = "write"
        /\ me.job = "transfer"
        /\ \A q \in Procs \ {p} : ~HoldsRow(q, me.acc)
        /\ UNCHANGED <<db, lastMut, calls>>
        /\ lastOp' = Op("transfer_recalculate", TRUE, "", me.from_account,
                        me.to_account, me.acc, me.amount, me.stage)
        /\ IF me.fault
           THEN Step(p, [me EXCEPT !.pc = "failed",
                                   !.err = "TransactionManagementError",
                                   !.w = Rollback(XferNoWrites, me.w)])
           ELSE Step(p, [me EXCEPT
                           !.pc = IF left > 0 THEN "read"
                                  ELSE IF me.stage < 4 THEN "insert" ELSE "commit",
                           !.stage = IF left = 0 /\ me.stage < 4 THEN @ + 1 ELSE @,
                           !.receivers = left,
                           !.w.balance[me.acc] = Some(me.new_balance),
                           !.w.audit = @ (+) SetToBag({AuditRow("Transaction",
                                                                instance, action)})])

\* Leaving the atomic() block: COMMIT, which releases the row locks.
TransferCommit(p) ==
    LET me == procs[p]
    IN  /\ me.pc = "commit"
        /\ me.job = "transfer"
        /\ db' = [db EXCEPT
                    !.txs = @ \cup me.w.txs,
                    !.audit = @ (+) me.w.audit,
                    !.accounts = [a \in Accounts |->
                                    IF me.w.balance[a] = None THEN @[a]
                                    ELSE [@[a] EXCEPT !.balance = me.w.balance[a][1]]]]
        /\ Step(p, [me EXCEPT !.pc = "done", !.w = XferNoWrites])
        /\ lastOp' = Op("transfer_commit", TRUE, "", me.from_account, me.to_account,
                        me.out, me.amount, 0)
        /\ UNCHANGED <<lastMut, calls>>

InitXfer ==
    /\ db = InitDb
    /\ lastOp = Op("init", TRUE, "", 0, 0, 0, 0, 0)
    /\ lastMut = [a \in Accounts |-> NoMut]
    /\ procs = [p \in Procs |-> XferIdle]
    /\ calls = 0

NextXfer ==
    \/ \E p \in Procs, a, b \in Accounts, x \in XferAmounts, fault \in BOOLEAN :
          BeginTransfer(p, a, b, x, fault)
    \/ \E p \in Procs : TransferWrite(p)
    \/ \E p \in Procs : TransferRecalcRead(p)
    \/ \E p \in Procs : TransferRecalcWrite(p)
    \/ \E p \in Procs : TransferCommit(p)

SpecXfer == InitXfer /\ [][NextXfer]_vars

\* ================================================================ properties
\* The rows of account a.
TxsOf(d, a) == {t \in d.txs : t.account = a}
AdjsOf(d, a) == {j \in d.adjs : j.account = a}

\* C1 (balance identity): in every reachable state get_balance() of every
\* account is initial_balance + the sum of the amounts of its transactions + the
\* sum of (new_amount - old_amount) of its adjustments, the empty history
\* included.
BalanceIdentity ==
    \A a \in Accounts :
        GetBalance(db, a) = db.accounts[a].initial_balance
                            + SumAmount(TxsOf(db, a)) + SumDelta(AdjsOf(db, a))

\* C1 witness: an account that carries a transaction and an adjustment, the
\* adjustment moving its balance.
BalanceIdentityWitness ==
    \E a \in Accounts :
        /\ TxsOf(db, a) /= {}
        /\ AdjsOf(db, a) /= {}
        /\ SumDelta(AdjsOf(db, a)) /= 0
        /\ GetBalance(db, a) /= db.accounts[a].initial_balance

\* C2 (cached-balance consistency), as the specification states it: after any
\* sequence of completed ledger operations the stored balance of every account
\* equals its get_balance().
CachedBalanceConsistent ==
    \A a \in Accounts : db.accounts[a].balance = GetBalance(db, a)

TransferAtomicity ==
    [][ (lastOp'.op = "create_transfer" /\ ~lastOp'.ok) =>
          /\ db'.txs = db.txs
          /\ \A a \in Accounts : db'.accounts[a].balance = db.accounts[a].balance ]_vars

\* C5 witness: create_transfer has just failed while writing a counterpart
\* link, after both rows had been written.
TransferAtomicityWitness ==
    /\ lastOp.op = "create_transfer"
    /\ ~lastOp.ok
    /\ lastOp.err = "DatabaseError"
    /\ lastOp.step >= 3

\* C6 (transfer-pair invariant), as the specification states it: every
\* transaction of type transfer has exactly one counterpart, on a different
\* account, whose amount is the exact negative of its own.
Counterparts(t) ==
    {u \in db.txs : u.id /= t.id
                    /\ (t.related_transaction = u.id \/ u.related_transaction = t.id)}

ReversalsOf(d, id) == {j \in d.adjs : j.reversal_of = id}

ReversalNeverReversible ==
    [][ (/\ lastOp'.op = "create_reverse"
         /\ \E j \in db.adjs : j.id = lastOp'.id /\ (j.is_reversal \/ j.reversal_of /= 0)) =>
          /\ ~lastOp'.ok
          /\ lastOp'.err = "ValueError"
          /\ db' = db ]_vars

\* C9 witness: create_reverse has just been refused on a row that is a
\* reversal, and that row has no reversal of its own.
ReversalNeverReversibleWitness ==
    /\ lastOp.op = "create_reverse"
    /\ ~lastOp.ok
    /\ lastOp.err = "ValueError"
    /\ \E j \in db.adjs : j.id = lastOp.id /\ j.is_reversal /\ j.reversal_of /= 0
    /\ ReversalsOf(db, lastOp.id) = {}

\* C3 (no lost update), as the specification states it: when two ledger
\* mutations on the same account ran concurrently and both have committed, the
\* stored balance of the account equals its get_balance().
NoLostUpdate ==
    (/\ \A p \in Procs : procs[p].pc = "done"
                         /\ procs[p].job \in {"tx_request", "tx_direct", "reverse"}
     /\ \A p, q \in Procs : procs[p].acc = procs[q].acc) =>
        \A p \in Procs : db.accounts[procs[p].acc].balance = GetBalance(db, procs[p].acc)

\* Every adjustment row, committed or written by an open transaction.
AllAdjs == db.adjs \cup UNION {procs[p].w.adjs : p \in Procs}

\* C10 (at most one reversal per original): in every reachable state,
\* concurrent create_reverse calls on one original included, at most one
\* Adjustment row has reversal_of pointing to a given original.
AtMostOneReversal ==
    \A j1, j2 \in AllAdjs :
        (j1.reversal_of /= 0 /\ j1.reversal_of = j2.reversal_of) => j1.id = j2.id

\* C10 witness: two workers ran create_reverse on the same original at the
\* same time; one committed its reversal and the other was refused by the
\* database.
AtMostOneReversalWitness ==
    \E p, q \in Procs :
        /\ p /= q
        /\ procs[p].job = "reverse" /\ procs[q].job = "reverse"
        /\ procs[p].orig = procs[q].orig
        /\ procs[p].pc = "done"
        /\ procs[q].pc = "failed" /\ procs[q].err = "IntegrityError"
        /\ Cardinality(ReversalsOf(db, procs[p].orig)) = 1

SnapshotsOf(d, a) == {s \in d.snapshots : s.account = a}

\* C12 (snapshot idempotence), as the specification states it: every
\* recalculate_balance(save_snapshot=True), the second one of a day included,
\* succeeds and leaves exactly one snapshot row of the account for the day,
\* holding the balance that call computed.
SnapshotIdempotence ==
    [][ lastOp'.op = "recalculate_snapshot" =>
          /\ lastOp'.ok
          /\ Cardinality(SnapshotsOf(db', lastOp'.acc)) = 1
          /\ \A s \in SnapshotsOf(db', lastOp'.acc) :
                s.balance = GetBalance(db, lastOp'.acc) ]_vars

\* C13 (snapshot failure is soft), as the specification states it: when
\* recalculate_balance(save_snapshot=True) runs on an account that already has
\* today's snapshot, no error reaches the caller, the call returns the new
\* balance and the cached balance holds it afterwards.
SnapshotFailureSoft ==
    [][ (/\ lastOp'.op = "recalculate_snapshot"
         /\ HasSnapshot(db, lastOp'.acc)) =>
          /\ lastOp'.ok
          /\ lastOp'.amount = GetBalance(db, lastOp'.acc)
          /\ db'.accounts[lastOp'.acc].balance = GetBalance(db, lastOp'.acc) ]_vars

\* The create, update and delete calls on one ledger row.
TransactionMutations == {"create_transaction", "update_transaction", "delete_transaction"}
AdjustmentMutations == {"create_adjustment", "update_adjustment", "delete_adjustment"}
RowMutations == TransactionMutations \cup AdjustmentMutations

ObjectTypeOf(op) == IF op \in TransactionMutations THEN "Transaction" ELSE "Adjustment"

ActionOf(op) ==
    IF op \in {"create_transaction", "create_adjustment"} THEN "created"
    ELSE IF op \in {"update_transaction", "update_adjustment"} THEN "updated"
    ELSE "deleted"

\* The row of the given type and id in d.
RowOf(d, otype, id) == IF otype = "Transaction" THEN TxById(d, id) ELSE AdjById(d, id)

AuditFailureSoft ==
    [][ (/\ lastOp'.op \in RowMutations
         /\ lastOp'.fault) =>
          LET otype == ObjectTypeOf(lastOp'.op)
              action == ActionOf(lastOp'.op)
              rows == IF otype = "Transaction" THEN db'.txs ELSE db'.adjs
          IN  /\ lastOp'.ok
              /\ action = "deleted" => \A r \in rows : r.id /= lastOp'.id
              /\ action /= "deleted" =>
                    \E r \in rows : r.id = lastOp'.id /\ r.account = lastOp'.acc
              /\ lastOp'.op = "update_transaction" =>
                    \E r \in rows : r.id = lastOp'.id /\ r.amount = lastOp'.amount
              /\ db'.accounts[lastOp'.acc].balance = GetBalance(db', lastOp'.acc) ]_vars

\* The scenario of C17 on account a: initial_balance 100.00, one expense of
\* -20.00 and one adjustment 100.00 -> 105.00 ...
ScenarioAdjusted(a) ==
    /\ db.accounts[a].initial_balance = 10000
    /\ \E t \in db.txs :
          TxsOf(db, a) = {t} /\ t.amount = -2000 /\ t.type = "expense"
    /\ \E j \in db.adjs :
          /\ AdjsOf(db, a) = {j}
          /\ j.old_amount = 10000 /\ j.new_amount = 10500 /\ ~j.is_reversal

\* ... and the same just after create_reverse on that adjustment has stored
\* its reversal.
ScenarioReversed(a) ==
    /\ lastOp.op = "create_reverse" /\ lastOp.ok /\ lastOp.acc = a
    /\ db.accounts[a].initial_balance = 10000
    /\ \E t \in db.txs :
          TxsOf(db, a) = {t} /\ t.amount = -2000 /\ t.type = "expense"
    /\ \E j, rev \in db.adjs :
          /\ AdjsOf(db, a) = {j, rev}
          /\ j.old_amount = 10000 /\ j.new_amount = 10500 /\ ~j.is_reversal
          /\ rev.is_reversal /\ rev.reversal_of = j.id /\ lastOp.id = j.id

ZeroAmountRejected ==
    [][ (/\ lastOp'.op \in {"create_transaction", "create_transfer"}
         /\ lastOp'.amount = 0) =>
          /\ ~lastOp'.ok
          /\ lastOp'.err \in {"amount_required", "amount_zero"}
          /\ db'.txs = db.txs ]_vars

\* C18 witness: a create with amount 0.00 has just been refused on a ledger
\* that already holds transactions.
ZeroAmountRejectedWitness ==
    /\ lastOp.op \in {"create_transaction", "create_transfer"}
    /\ lastOp.amount = 0
    /\ ~lastOp.ok
    /\ db.txs /= {}

\* C19 (currency enforcement on create), as the specification states it: a
\* create that asks for a transaction row whose currency is not the currency
\* of the row's account fails validation and writes no Transaction row.
CurrencyEnforcedOnCreate ==
    [][ (/\ lastOp'.op \in {"create_transaction", "create_transfer"}
         /\ lastOp'.cur_differs) =>
          /\ ~lastOp'.ok
          /\ db'.txs = db.txs ]_vars

AdjustmentImmutable ==
    [][ \A j \in db.adjs : \A k \in db'.adjs :
          k.id = j.id =>
             /\ k.account = j.account
             /\ k.old_amount = j.old_amount
             /\ k.new_amount = j.new_amount ]_vars

\* C24 (mandatory reason): a create or update of an adjustment whose payload
\* has an empty reason, and a create whose payload has none, is rejected and
\* leaves the adjustment rows as they are; every stored adjustment, reversals
\* included, has a non-empty reason.
MandatoryReason ==
    /\ [](\A j \in db.adjs : j.reason /= "")
    /\ [][ (/\ lastOp'.op \in {"create_adjustment", "update_adjustment"}
            /\ lastOp'.no_reason) =>
             /\ ~lastOp'.ok
             /\ lastOp'.err \in {"reason_blank", "reason_required"}
             /\ db'.adjs = db.adjs ]_vars

\* C24 witness: a create without a usable reason has just been refused on a
\* ledger that holds an adjustment and its reversal.
MandatoryReasonWitness ==
    /\ lastOp.op = "create_adjustment"
    /\ lastOp.no_reason
    /\ ~lastOp.ok
    /\ \E j \in db.adjs : j.is_reversal /\ j.reason /= ""

\* C22 (recalculation postcondition): when recalculate_balance returns, with
\* or without a snapshot, the value returned, the stored balance of the account
\* and get_balance() on the rows of that moment are equal; with a snapshot
\* requested the account's snapshot of the day exists and holds that value.
RecalculationPostcondition ==
    [][ (/\ lastOp'.op \in {"recalculate", "recalculate_snapshot"}
         /\ lastOp'.ok) =>
          /\ lastOp'.amount = GetBalance(db', lastOp'.acc)
          /\ db'.accounts[lastOp'.acc].balance = lastOp'.amount
          /\ lastOp'.op = "recalculate_snapshot" =>
                /\ SnapshotsOf(db', lastOp'.acc) /= {}
                /\ \A s \in SnapshotsOf(db', lastOp'.acc) :
                      s.balance = lastOp'.amount ]_vars

\* C22 witness: a recalculation with snapshot has just returned on an account
\* whose transactions and adjustments move its balance.
RecalculationPostconditionWitness ==
    /\ lastOp.op = "recalculate_snapshot"
    /\ lastOp.ok
    /\ TxsOf(db, lastOp.acc) /= {}
    /\ AdjsOf(db, lastOp.acc) /= {}
    /\ lastOp.amount /= db.accounts[lastOp.acc].initial_balance

\* C23 (same-account transfer): create_transfer from an account to itself,
\* called directly or through the serializer, fails for every amount and
\* leaves the whole database as it was: no Transaction row, no AuditLog row,
\* no change of a cached balance.
SameAccountTransferRejected ==
    [][ (/\ lastOp'.op \in {"create_transfer", "create_transfer_direct"}
         /\ lastOp'.same_account) =>
          /\ ~lastOp'.ok
          /\ db' = db ]_vars

\* C23 witness: a direct create_transfer from an account to itself has just
\* raised the ValueError, on a ledger that holds a transfer pair.
SameAccountTransferRejectedWitness ==
    /\ lastOp.op = "create_transfer_direct"
    /\ lastOp.same_account
    /\ ~lastOp.ok /\ lastOp.err = "ValueError"
    /\ \E t \in db.txs : t.type = "transfer"

\* The candidate set of a mark_duplicates call with account filter acc (0: none).
Candidates(d, acc) == {t \in d.txs : acc = 0 \/ t.account = acc}

\* The rows of S in the (account, amount, date) group of t.
GroupOf(S, t) ==
    {u \in S : u.account = t.account /\ u.amount = t.amount /\ u.date = t.date}

InvitationLifecycle ==
    [][ /\ lastOp'.op = "accept" =>
           LET invitation == InvitationById(db, lastOp'.id)
               open == invitation.status = "pending"
                       /\ (invitation.expires_at = None
                           \/ db.now < invitation.expires_at[1])
           IN  /\ open =>
                     /\ lastOp'.ok
                     /\ \E m \in db'.memberships : m.user = lastOp'.other
                     /\ InvitationById(db', lastOp'.id).status = "accepted"
                     /\ InvitationById(db', lastOp'.id).accepted_at /= None
               /\ ~open =>
                     /\ ~lastOp'.ok
                     /\ db'.memberships = db.memberships
                     /\ db'.invitations = db.invitations
        /\ \A i \in db.invitations :
              i.status = "accepted" =>
                 /\ InvitationById(db', i.id).status = "accepted"
                 /\ ~(lastOp'.op = "accept" /\ lastOp'.id = i.id /\ lastOp'.ok) ]_vars

\* What Invitation.accept does hold to: the status and expiry date it tests
\* are those of the instance it is called on.
AcceptContractOnInstance ==
    [][ \A p \in Procs :
          (procs[p].pc = "loaded" /\ procs'[p].pc = "idle") =>
             LET invitation == procs[p].invitation
                 open == invitation.status = "pending"
                         /\ (invitation.expires_at = None
                             \/ db.now < invitation.expires_at[1])
             IN  IF open
                 THEN /\ lastOp'.ok
                      /\ \E m \in db'.memberships : m.user = procs[p].user
                      /\ InvitationById(db', invitation.id).status = "accepted"
                 ELSE /\ ~lastOp'.ok
                      /\ db' = db ]_vars

\* C27 (no zero-amount transaction through the serializer): no stored
\* transaction has amount zero, and an update that asks for amount 0.00 is
\* refused and changes no transaction.
NoZeroAmountThroughSerializer ==
    /\ [](\A t \in db.txs : t.amount /= 0)
    /\ [][ (lastOp'.op = "update_transaction" /\ lastOp'.amount = 0) =>
             /\ ~lastOp'.ok
             /\ db'.txs = db.txs ]_vars

\* C28 (transfer recalculation ordering): a running create_transfer holds no
\* lock or pending write on an account row before both of its transaction
\* rows are written.
RecalculationAfterBothRows ==
    \A p \in Procs :
       (procs[p].job = "transfer" /\ \E a \in Accounts : HoldsRow(p, a)) =>
          /\ procs[p].out /= 0
          /\ procs[p].inc /= 0

RecalculatingOps ==
    TransactionMutations \cup AdjustmentMutations
       \cup {"recalculate", "recalculate_snapshot", "create_transfer",
             "create_transfer_direct", "create_reverse"}

SingleWriterOfBalance ==
    [][ \A a \in Accounts :
          db'.accounts[a].balance /= db.accounts[a].balance =>
             /\ lastOp'.op \in RecalculatingOps
             /\ db'.accounts[a].balance = GetBalance(db', a) ]_vars

====
